---- MODULE Spec2Model ----
(***************************************************************************)
(* Model of run-script-rs (src/src/lib.rs): spawn_script, run_script,      *)
(* run_powershell, ProcessOutput (new, success, Display).                  *)
(*                                                                         *)
(* Text is a sequence of one-character strings.  The build target fixes    *)
(* which cfg branches are compiled: cfg(unix) selects the run_script       *)
(* crate, cfg(windows) the powershell_script crate.  What the launched     *)
(* process does (whether it can be created, its exit code, what it writes, *)
(* whether its output can be collected) is chosen by the environment when  *)
(* a call is made and kept in `proc`.                                      *)
(***************************************************************************)
EXTENDS Integers, Sequences, FiniteSets, TLC

VARIABLES
    target,       \* build target: "linux", "macos" (both cfg(unix)) or "windows"
    pc,           \* position of the caller inside run_script, "idle" between calls
    lastOp,       \* the public operation last entered: "none", "run", "spawn", "new"
    script,       \* the script argument of the current/last call
    verbose,      \* the verbose argument of the current/last run_script call
    proc,         \* behaviour of the process this call launches (environment)
    handed,       \* what was handed to the underlying mechanism: script and options
    child,        \* "none", "running" or "exited"
    launches,     \* process launches attempted by the current/last call
    raw,          \* what the mechanism returned to the library
    po,           \* the ProcessOutput `s` built by the call (or by new)
    constructed,  \* ProcessOutput values built by the current/last call
    log,          \* lines this library printed during the current/last call
    ret,          \* value returned to the caller
    prev,         \* outcome of the preceding run_script call when this call repeats it
    obs           \* last value read off `po` by the caller: success() or Display

vars == <<target, pc, lastOp, script, verbose, proc, handed, child, launches,
          raw, po, constructed, log, ret, prev, obs>>

-----------------------------------------------------------------------------
(* Bounds of the model *)

MaxLen == 3

Alphabet == {"a", "\n"}

Scripts == {"ls", "zhandubalm"}

\* exit codes a launched process ends with: success, command not found
ExitCodes == {0, 127}

RECURSIVE TextsOfLen(_)
TextsOfLen(n) ==
    IF n = 0 THEN {<<>>}
    ELSE {Append(t, c) : t \in TextsOfLen(n - 1), c \in Alphabet}

Texts == UNION {TextsOfLen(n) : n \in 0..MaxLen}

Targets == {"linux", "macos", "windows"}

-----------------------------------------------------------------------------
(* cfg predicates *)

cfg_unix(t) == t \in {"linux", "macos"}

cfg_windows(t) == t = "windows"

cfg_linux(t) == t = "linux"

-----------------------------------------------------------------------------
(* str::trim_end: drop every trailing White_Space character *)

IsWhitespace(c) == c \in {" ", "\n", "\t", "\r"}

\* variant: drops one trailing newline only
trim_end_once(t) ==
    IF t # <<>> /\ t[Len(t)] = "\n" THEN SubSeq(t, 1, Len(t) - 1) ELSE t

RECURSIVE trim_end(_)
trim_end(t) ==
    IF t = <<>> THEN t
    ELSE IF IsWhitespace(t[Len(t)]) THEN trim_end(SubSeq(t, 1, Len(t) - 1))
    ELSE t

-----------------------------------------------------------------------------
(* Option<String> as returned by powershell_script::Output::stdout/stderr *)

Some(t) == [some |-> TRUE, text |-> t]

None == [some |-> FALSE, text |-> <<>>]

OptTexts == {Some(t) : t \in Texts} \cup {None}

\* variant: an absent stream becomes a placeholder instead of ""
map_trim_unwrap_or_placeholder(o) == IF o.some THEN trim_end(o.text) ELSE <<"?">>

\* .map(|x| x.trim_end().to_string()).unwrap_or("".to_string())
map_trim_unwrap_or(o) == IF o.some THEN trim_end(o.text) ELSE <<>>

-----------------------------------------------------------------------------
(* ProcessOutput *)

NoPO == [built |-> FALSE]

new(code, stdout, stderr) ==
    [built |-> TRUE, code |-> code, stdout |-> stdout, stderr |-> stderr]

\* variant: the unix rule on every target
success_code_only(t, self) == self.code = 0

success(t, self) ==
    IF cfg_windows(t) THEN self.code = 0 /\ self.stderr = <<>>
    ELSE self.code = 0

DigitChars == <<"0", "1", "2", "3", "4", "5", "6", "7", "8", "9">>

RECURSIVE NatToText(_)
NatToText(n) ==
    IF n < 10 THEN <<DigitChars[n + 1]>>
    ELSE NatToText(n \div 10) \o <<DigitChars[(n % 10) + 1]>>

\* Display of an i32
IntToText(i) == IF i < 0 THEN <<"-">> \o NatToText(-i) ELSE NatToText(i)

\* variant: stdout and stderr in the wrong order
fmt_swapped(self) ==
    <<"<">> \o IntToText(self.code) \o <<",", " ">> \o self.stderr
            \o <<",", " ">> \o self.stdout \o <<">">>

\* write!(f, "<{}, {}, {}>", self.code, self.stdout, self.stderr)
fmt(self) ==
    <<"<">> \o IntToText(self.code) \o <<",", " ">> \o self.stdout
            \o <<",", " ">> \o self.stderr \o <<">">>

-----------------------------------------------------------------------------
(* Values returned to the caller: anyhow::Result<_> *)

NoRet == [kind |-> "none"]

Ok(p) == [kind |-> "ok", val |-> p]

OkChild == [kind |-> "child"]

Err(e) == [kind |-> "err", err |-> e]

-----------------------------------------------------------------------------
(* Options handed to the underlying mechanism *)

\* run_script::ScriptOptions::new()
ScriptOptions_new ==
    [runner |-> "None", runner_args |-> "None", working_directory |-> "None",
     input_redirection |-> "Inherit", output_redirection |-> "Pipe",
     exit_on_error |-> FALSE, print_commands |-> FALSE, env_vars |-> "None"]

\* the ScriptOptions literal of spawn_script
spawn_options(t) ==
    [runner |-> IF cfg_linux(t) THEN "bash" ELSE "None",
     runner_args |-> "None", working_directory |-> "None",
     input_redirection |-> "Inherit", output_redirection |-> "Inherit",
     exit_on_error |-> TRUE, print_commands |-> TRUE, env_vars |-> "None"]

\* PsScriptBuilder::new().hidden(true).no_profile(true).non_interactive(true)
\*     .print_commands(debug).build()
PsScriptBuilder(debug) ==
    [hidden |-> TRUE, no_profile |-> TRUE, non_interactive |-> TRUE,
     print_commands |-> debug]

\* variant: verbose reaches the options on unix too
run_options_echo(t, v) ==
    IF cfg_windows(t) THEN PsScriptBuilder(v)
    ELSE [ScriptOptions_new EXCEPT !.print_commands = v]

run_options(t, v) == IF cfg_windows(t) THEN PsScriptBuilder(v) ELSE ScriptOptions_new

NoHanded == [set |-> FALSE]

Handed(s, o) == [set |-> TRUE, script |-> s, options |-> o]

-----------------------------------------------------------------------------
(* Behaviour of the launched process, as the mechanism will see it *)

LaunchFails ==
    [launch |-> FALSE, collect |-> FALSE, exit |-> 0, out |-> None, err |-> None]

\* run_script::run hands back Strings; powershell_script hands back Options
Streams(t) == IF cfg_windows(t) THEN OptTexts ELSE {Some(x) : x \in Texts}

RunBehaviours(t) ==
    {LaunchFails}
    \cup {[launch |-> TRUE, collect |-> FALSE, exit |-> c, out |-> None, err |-> None] :
             c \in ExitCodes}
    \cup {[launch |-> TRUE, collect |-> TRUE, exit |-> c, out |-> o, err |-> e] :
             c \in ExitCodes, o \in Streams(t), e \in Streams(t)}

NoRaw == [kind |-> "none"]

\* run_script::run(script, &vec![], &options) once the process has exited
run_script_run(b) ==
    IF ~b.collect THEN [kind |-> "err", err |-> "IOError"]
    ELSE [kind |-> "tuple", status |-> b.exit, out |-> b.out.text, err |-> b.err.text]

\* ps.run(command) once the process has exited: a failed script is PsError
ps_run(b) ==
    IF ~b.collect THEN [kind |-> "err", err |-> "Io"]
    ELSE IF b.exit # 0 THEN [kind |-> "err", err |-> "Powershell"]
    ELSE [kind |-> "output", success |-> TRUE, stdout |-> b.out, stderr |-> b.err]

\* variant: a non-zero exit is an error on unix as well
mechanism_strict(t, b) ==
    IF cfg_windows(t) THEN ps_run(b)
    ELSE IF b.collect /\ b.exit # 0 THEN [kind |-> "err", err |-> "IOError"]
    ELSE run_script_run(b)

mechanism(t, b) == IF cfg_windows(t) THEN ps_run(b) ELSE run_script_run(b)

launch_error(t) == IF cfg_windows(t) THEN "Io" ELSE "IOError"

\* variant: a failed launch is papered over with an empty failed result
launch_failure_empty(t) == Ok(new(1, <<>>, <<>>))

\* `?` on the mechanism's launch error
launch_failure(t) == Err(launch_error(t))

-----------------------------------------------------------------------------
(* Building the ProcessOutput from what the mechanism returned *)

\* variant: the status reduced to a flag, as on the powershell path
unix_output_flag(r) ==
    [built |-> TRUE, code |-> IF r.status = 0 THEN 0 ELSE 1,
     stdout |-> trim_end(r.out), stderr |-> trim_end(r.err)]

\* .map(|(status, out, err)| ProcessOutput { code: status, stderr: ..., stdout: ... })
unix_output(r) ==
    [built |-> TRUE, code |-> r.status, stdout |-> trim_end(r.out),
     stderr |-> trim_end(r.err)]

\* the tail of run_powershell
powershell_output(r) ==
    new(IF r.success THEN 0 ELSE 1,
        map_trim_unwrap_or(r.stdout), map_trim_unwrap_or(r.stderr))

build(t, r) == IF cfg_windows(t) THEN powershell_output(r) ELSE unix_output(r)

-----------------------------------------------------------------------------
(* State *)

NoPrev == [set |-> FALSE]

NoObs == [kind |-> "none"]

Init ==
    /\ target \in Targets
    /\ pc = "idle"
    /\ lastOp = "none"
    /\ script \in Scripts
    /\ verbose = FALSE
    /\ proc \in RunBehaviours(target)
    /\ handed = NoHanded
    /\ child = "none"
    /\ launches = 0
    /\ raw = NoRaw
    /\ po = NoPO
    /\ constructed = 0
    /\ log = <<>>
    /\ ret = NoRet
    /\ prev = NoPrev
    /\ obs = NoObs

\* the outcome of the run_script call that just returned, kept while the next
\* call repeats it (same script, same process behaviour)
Remember ==
    IF lastOp = "run"
    THEN [set |-> TRUE, verbose |-> verbose, handed |-> handed, ret |-> ret]
    ELSE NoPrev

-----------------------------------------------------------------------------
(* run_script *)

\* Entry of run_script up to the point where the mechanism has tried to create
\* the process: the first diagnostic line (unix only), the options, the launch.
run_script_launch(v) ==
    /\ pc = "idle"
    /\ lastOp' = "run"
    /\ verbose' = v
    /\ prev' = Remember
    /\ log' = IF cfg_unix(target) /\ v
              THEN <<[line |-> "executing", script |-> script,
                      options |-> ScriptOptions_new]>>
              ELSE <<>>
    /\ handed' = Handed(script, run_options(target, v))
    /\ launches' = 1
    /\ raw' = NoRaw
    /\ po' = NoPO
    /\ constructed' = 0
    /\ obs' = NoObs
    /\ IF proc.launch
       THEN /\ child' = "running"
            /\ pc' = "wait"
            /\ ret' = NoRet
       ELSE /\ child' = "none"
            /\ pc' = "idle"
            /\ ret' = launch_failure(target)
    /\ UNCHANGED <<target, script, proc>>

\* The launched process terminates (environment).
process_exits ==
    /\ child = "running"
    /\ child' = "exited"
    /\ UNCHANGED <<target, pc, lastOp, script, verbose, proc, handed, launches,
                   raw, po, constructed, log, ret, prev, obs>>

\* variant: the result is taken without waiting for the process to exit
mechanism_returns_nowait ==
    /\ pc = "wait"
    /\ raw' = mechanism(target, proc)
    /\ IF raw'.kind = "err"
       THEN /\ pc' = "idle"
            /\ ret' = Err(raw'.err)
       ELSE /\ pc' = "collected"
            /\ ret' = ret
    /\ UNCHANGED <<target, lastOp, script, verbose, proc, handed, child, launches,
                   po, constructed, log, prev, obs>>

\* The mechanism has waited for the process and hands its result back; an
\* error is propagated by `?`.
mechanism_returns ==
    /\ pc = "wait"
    /\ child = "exited"
    /\ raw' = mechanism(target, proc)
    /\ IF raw'.kind = "err"
       THEN /\ pc' = "idle"
            /\ ret' = Err(raw'.err)
       ELSE /\ pc' = "collected"
            /\ ret' = ret
    /\ UNCHANGED <<target, lastOp, script, verbose, proc, handed, child, launches,
                   po, constructed, log, prev, obs>>

\* The ProcessOutput is built from the mechanism's result.
normalize ==
    /\ pc = "collected"
    /\ po' = build(target, raw)
    /\ constructed' = constructed + 1
    /\ pc' = "built"
    /\ UNCHANGED <<target, lastOp, script, verbose, proc, handed, child, launches,
                   raw, log, ret, prev, obs>>

\* if verbose { println!(" {s:?}"); }
post_log ==
    /\ pc = "built"
    /\ verbose
    /\ log' = Append(log, [line |-> "result", s |-> po])
    /\ pc' = "logged"
    /\ UNCHANGED <<target, lastOp, script, verbose, proc, handed, child, launches,
                   raw, po, constructed, ret, prev, obs>>

\* Ok(s)
run_script_return ==
    /\ \/ pc = "logged"
       \/ pc = "built" /\ ~verbose
    /\ ret' = Ok(po)
    /\ pc' = "idle"
    /\ UNCHANGED <<target, lastOp, script, verbose, proc, handed, child, launches,
                   raw, po, constructed, log, prev, obs>>

-----------------------------------------------------------------------------
(* spawn_script: the whole call *)

\* variant: the call waits for the child before returning
spawn_script_waits ==
    /\ pc = "idle"
    /\ lastOp' = "spawn"
    /\ handed' = Handed(script, spawn_options(target))
    /\ launches' = 1
    /\ IF proc.launch
       THEN /\ child' = "exited"
            /\ ret' = OkChild
       ELSE /\ child' = "none"
            /\ ret' = Err("IOError")
    /\ raw' = NoRaw
    /\ po' = NoPO
    /\ constructed' = 0
    /\ log' = <<>>
    /\ prev' = NoPrev
    /\ obs' = NoObs
    /\ UNCHANGED <<target, pc, script, verbose, proc>>

spawn_script ==
    /\ pc = "idle"
    /\ lastOp' = "spawn"
    /\ handed' = Handed(script, spawn_options(target))
    /\ launches' = 1
    /\ IF proc.launch
       THEN /\ child' = "running"
            /\ ret' = OkChild
       ELSE /\ child' = "none"
            /\ ret' = Err("IOError")
    /\ raw' = NoRaw
    /\ po' = NoPO
    /\ constructed' = 0
    /\ log' = <<>>
    /\ prev' = NoPrev
    /\ obs' = NoObs
    /\ UNCHANGED <<target, pc, script, verbose, proc>>

-----------------------------------------------------------------------------
(* ProcessOutput used directly by the caller *)

\* i32 codes given to ProcessOutput::new
Codes == ExitCodes \cup {1, -1}

\* ProcessOutput::new(code, stdout, stderr), the texts being those of the
\* environment chosen initially
call_new(code, stdout, stderr) ==
    /\ pc = "idle"
    /\ lastOp' = "new"
    /\ po' = new(code, stdout, stderr)
    /\ constructed' = 1
    /\ handed' = NoHanded
    /\ child' = "none"
    /\ launches' = 0
    /\ raw' = NoRaw
    /\ log' = <<>>
    /\ ret' = NoRet
    /\ prev' = NoPrev
    /\ obs' = NoObs
    /\ UNCHANGED <<target, pc, script, verbose, proc>>

call_success ==
    /\ pc = "idle"
    /\ po.built
    /\ obs' = [kind |-> "success", value |-> success(target, po)]
    /\ UNCHANGED <<target, pc, lastOp, script, verbose, proc, handed, child,
                   launches, raw, po, constructed, log, ret, prev>>

call_display ==
    /\ pc = "idle"
    /\ po.built
    /\ obs' = [kind |-> "display", text |-> fmt(po)]
    /\ UNCHANGED <<target, pc, lastOp, script, verbose, proc, handed, child,
                   launches, raw, po, constructed, log, ret, prev>>

-----------------------------------------------------------------------------

Next ==
    \/ \E v \in BOOLEAN : run_script_launch(v)
    \/ process_exits
    \/ mechanism_returns
    \/ normalize
    \/ post_log
    \/ run_script_return
    \/ spawn_script
    \/ \E c \in Codes : call_new(c, proc.out.text, proc.err.text)
    \/ call_success
    \/ call_display

Spec == Init /\ [][Next]_vars

-----------------------------------------------------------------------------
(* Vocabulary of the properties *)

\* a run_script call has returned to its caller
Returned == lastOp = "run" /\ pc = "idle"

\* the process was created and its output collected
Completed == proc.launch /\ proc.collect

IsPrefix(x, r) == Len(x) <= Len(r) /\ SubSeq(r, 1, Len(x)) = x

HasVisible(t) == \E i \in 1..Len(t) : ~IsWhitespace(t[i])

EndsClean(x) == x = <<>> \/ ~IsWhitespace(x[Len(x)])

\* x is r without its trailing whitespace, nothing else changed
TrimmedOf(x, r) ==
    /\ IsPrefix(x, r)
    /\ EndsClean(x)
    /\ \A i \in (Len(x) + 1)..Len(r) : IsWhitespace(r[i])

DigitValue(c) == CHOOSE d \in 0..9 : DigitChars[d + 1] = c

IsDigit(c) == \E d \in 0..9 : DigitChars[d + 1] = c

RECURSIVE DigitsToNat(_)
DigitsToNat(t) ==
    IF Len(t) = 1 THEN DigitValue(t[1])
    ELSE 10 * DigitsToNat(SubSeq(t, 1, Len(t) - 1)) + DigitValue(t[Len(t)])

\* t is the decimal numeral of i
IsNumeralOf(t, i) ==
    LET d == IF t # <<>> /\ t[1] = "-" THEN Tail(t) ELSE t
    IN  /\ d # <<>>
        /\ \A k \in 1..Len(d) : IsDigit(d[k])
        /\ Len(d) > 1 => d[1] # "0"
        /\ i = IF t[1] = "-" THEN 0 - DigitsToNat(d) ELSE DigitsToNat(d)

-----------------------------------------------------------------------------
(* C1 *)

\* C1 as stated: on either strategy a launched script that exits non-zero
\* makes run_script return Ok with code # 0, non-empty stderr and success()
\* false, never an error.
C1_FailingScriptIsOk ==
    (Returned /\ Completed /\ proc.exit # 0) =>
        /\ ret.kind = "ok"
        /\ ret.val.code # 0
        /\ ret.val.stderr # <<>>
        /\ ~success(target, ret.val)

\* C1 amended: on the POSIX-shell strategy a launched script that exits
\* non-zero makes run_script return Ok with code # 0 and success() false, its
\* stderr being non-empty exactly when the process wrote visible text to its
\* error stream; on the engine strategy the same script makes run_script
\* return an error.
C1_FailingScriptByStrategy ==
    (Returned /\ Completed /\ proc.exit # 0) =>
        IF cfg_unix(target)
        THEN /\ ret.kind = "ok"
             /\ ret.val.code # 0
             /\ ~success(target, ret.val)
             /\ (ret.val.stderr # <<>>) <=> HasVisible(proc.err.text)
        ELSE ret.kind = "err"

C1_Witness ==
    /\ Returned /\ Completed /\ cfg_unix(target)
    /\ script = "zhandubalm"
    /\ proc.exit = 127
    /\ ret.kind = "ok"
    /\ ret.val.code = 127
    /\ ret.val.stderr # <<>>

-----------------------------------------------------------------------------
(* C2 *)

\* C2: success() is decided by the fields alone: code = 0 on the POSIX-shell
\* strategy, code = 0 and empty stderr on the engine strategy.
\* In particular a script that exits 0 and writes nothing visible to its error
\* stream is a success on both.
C2_SuccessRule ==
    obs.kind = "success" =>
        /\ obs.value = IF cfg_windows(target)
                       THEN po.code = 0 /\ Len(po.stderr) = 0
                       ELSE po.code = 0
        /\ (lastOp = "run" /\ proc.exit = 0 /\ ~HasVisible(proc.err.text))
              => obs.value

C2_Witness ==
    /\ obs.kind = "success"
    /\ cfg_windows(target)
    /\ po.code = 0
    /\ po.stderr # <<>>
    /\ obs.value = FALSE

-----------------------------------------------------------------------------
(* C3 *)

\* C3: the stdout and stderr of a returned ProcessOutput are the raw captured
\* texts without their trailing whitespace: a prefix of the raw text that does
\* not end in whitespace, everything cut being whitespace, and trimming the
\* result again changes nothing.
C3_TrailingWhitespaceOnly ==
    (Returned /\ ret.kind = "ok") =>
        /\ TrimmedOf(ret.val.stdout, proc.out.text)
        /\ TrimmedOf(ret.val.stderr, proc.err.text)
        /\ trim_end(ret.val.stdout) = ret.val.stdout
        /\ trim_end(ret.val.stderr) = ret.val.stderr

C3_Witness ==
    /\ Returned /\ ret.kind = "ok"
    /\ proc.out.text = <<"\n", "a", "\n">>
    /\ ret.val.stdout = <<"\n", "a">>
    /\ proc.err.text = <<"a", "\n", "\n">>
    /\ ret.val.stderr = <<"a">>

-----------------------------------------------------------------------------
(* C4 *)

\* two consecutive calls on the same script and process behaviour that differ
\* in verbose only
VerbosePair == Returned /\ prev.set /\ prev.verbose # verbose

\* C4 as stated: the two calls hand the same script and the same options to
\* the mechanism and return the same value.
C4_VerboseChangesNothing ==
    VerbosePair => (handed = prev.handed /\ ret = prev.ret)

\* C4 amended: the two calls hand the same script to the mechanism and return
\* the same value; on the POSIX-shell strategy they hand the same options, on
\* the engine strategy the options differ in print_commands alone, which is
\* set to verbose.
C4_VerboseChangesLoggingAndEcho ==
    VerbosePair =>
        /\ handed.script = prev.handed.script
        /\ ret = prev.ret
        /\ cfg_unix(target) => handed.options = prev.handed.options
        /\ cfg_windows(target) =>
              /\ handed.options.print_commands = verbose
              /\ prev.handed.options.print_commands = prev.verbose
              /\ [handed.options EXCEPT !.print_commands = FALSE]
                   = [prev.handed.options EXCEPT !.print_commands = FALSE]

C4_Witness ==
    /\ VerbosePair
    /\ verbose
    /\ ret.kind = "ok"
    /\ Len(log) > 0
    /\ ret = prev.ret

-----------------------------------------------------------------------------
(* C5 *)

\* C5: spawn_script returns Ok with the child handle as soon as the process
\* is created, the process still running at that moment; it returns an error
\* exactly when the process cannot be created, and what the process does
\* later (exit, with whatever code) does not change what was returned.
C5_SpawnNeverWaits ==
    [][/\ spawn_script =>
            IF proc.launch
            THEN ret'.kind = "child" /\ child' = "running"
            ELSE ret'.kind = "err" /\ child' = "none"
       /\ (lastOp = "spawn" /\ process_exits) => ret' = ret]_vars

C5_Witness ==
    /\ lastOp = "spawn"
    /\ ret.kind = "child"
    /\ child = "running"
    /\ proc.exit # 0

-----------------------------------------------------------------------------
(* C6 *)

\* C6: when the mechanism cannot create the process, run_script returns an
\* error, no ProcessOutput has been built, and exactly one launch was
\* attempted, with the options of the build's own strategy.
C6_LaunchFailureIsError ==
    (Returned /\ ~proc.launch) =>
        /\ ret.kind = "err"
        /\ ~po.built
        /\ constructed = 0
        /\ launches = 1
        /\ child = "none"
        /\ handed.options = run_options(target, verbose)

C6_Witness ==
    /\ Returned
    /\ ~proc.launch
    /\ ret.kind = "err"
    /\ launches = 1

-----------------------------------------------------------------------------
(* C7 *)

\* the mechanism could not give the text of one of the streams
StreamMissing == ~proc.collect \/ ~proc.out.some \/ ~proc.err.some

\* C7 as stated: whenever the mechanism cannot retrieve a stream's text,
\* run_script returns an error.
C7_MissingStreamIsError ==
    (Returned /\ proc.launch /\ StreamMissing) => ret.kind = "err"

\* C7 amended: when the mechanism fails to collect the output of the process,
\* run_script returns an error; on the engine strategy a stream the engine
\* reports as absent is returned as the empty string in an Ok ProcessOutput
\* when the script succeeded.
C7_AbsentStreamBecomesEmpty ==
    (Returned /\ proc.launch) =>
        /\ ~proc.collect => ret.kind = "err"
        /\ (proc.collect /\ proc.exit = 0 /\ ~proc.out.some)
              => (ret.kind = "ok" /\ ret.val.stdout = <<>>)
        /\ (proc.collect /\ proc.exit = 0 /\ ~proc.err.some)
              => (ret.kind = "ok" /\ ret.val.stderr = <<>>)

C7_Witness ==
    /\ Returned
    /\ cfg_windows(target)
    /\ proc.collect
    /\ ~proc.err.some
    /\ proc.out.some
    /\ ret.kind = "ok"
    /\ ret.val.stderr = <<>>

-----------------------------------------------------------------------------
(* C8 *)

\* C8 as stated: on either strategy, for a process that terminated with exit
\* code c, run_script returns a ProcessOutput whose code is c.
C8_CodeIsExitCode ==
    (Returned /\ Completed) => (ret.kind = "ok" /\ ret.val.code = proc.exit)

\* C8 amended: on the POSIX-shell strategy the returned code is the exit code
\* of the process (127 for a command that is not found); on the engine
\* strategy the code is 0 when the engine reports success and 1 otherwise,
\* and a process that exits non-zero yields an error, so no exit code other
\* than 0 is ever returned.
C8_CodeByStrategy ==
    (Returned /\ Completed) =>
        IF cfg_unix(target)
        THEN ret.kind = "ok" /\ ret.val.code = proc.exit
        ELSE /\ ret.kind = "ok" <=> proc.exit = 0
             /\ ret.kind = "ok" =>
                   /\ ret.val.code = (IF raw.success THEN 0 ELSE 1)
                   /\ ret.val.code = 0

C8_Witness ==
    /\ Returned /\ Completed
    /\ cfg_unix(target)
    /\ raw.kind = "tuple"
    /\ raw.status = 127
    /\ ret.kind = "ok"
    /\ ret.val.code = 127

-----------------------------------------------------------------------------
(* C9 *)

\* C9: the display text of a ProcessOutput is "<", the decimal numeral of
\* code, ", ", stdout unmodified, ", ", stderr unmodified, ">", in this order.
C9_DisplayTriple ==
    obs.kind = "display" =>
        LET d == obs.text
            n == Len(d) - Len(po.stdout) - Len(po.stderr) - 6
            o == n + 4
            e == o + Len(po.stdout) + 2
        IN  /\ n >= 1
            /\ d[1] = "<"
            /\ IsNumeralOf(SubSeq(d, 2, n + 1), po.code)
            /\ SubSeq(d, n + 2, n + 3) = <<",", " ">>
            /\ SubSeq(d, o, o + Len(po.stdout) - 1) = po.stdout
            /\ SubSeq(d, e - 2, e - 1) = <<",", " ">>
            /\ SubSeq(d, e, e + Len(po.stderr) - 1) = po.stderr
            /\ e + Len(po.stderr) = Len(d)
            /\ d[Len(d)] = ">"

C9_Witness ==
    /\ obs.kind = "display"
    /\ po = new(0, <<"a">>, <<"a", "a">>)
    /\ obs.text = <<"<", "0", ",", " ", "a", ",", " ", "a", "a", ">">>

-----------------------------------------------------------------------------
(* C10 *)

HasResultLine == \E i \in 1..Len(log) : log[i].line = "result"

\* C10: within a run_script call at most one process is launched; the
\* ProcessOutput is built at most once, with its three fields together, only
\* after the process has exited and the mechanism has handed its output back;
\* nothing is returned while the call is in progress and an Ok return carries
\* the value built; with verbose the result line is printed after the value
\* is built and before the return, without verbose it is never printed.
C10_StrictOrder ==
    lastOp = "run" =>
        /\ launches <= 1
        /\ constructed <= 1
        /\ pc \in {"collected", "built", "logged"} =>
              (child = "exited" /\ raw.kind \in {"tuple", "output"})
        /\ pc \in {"wait", "collected"} => (~po.built /\ constructed = 0)
        /\ po.built =>
              /\ constructed = 1
              /\ child = "exited"
              /\ raw.kind \in {"tuple", "output"}
              /\ {"code", "stdout", "stderr"} \subseteq DOMAIN po
        /\ pc # "idle" => ret.kind = "none"
        /\ ret.kind = "ok" => (po.built /\ ret.val = po /\ child = "exited")
        /\ HasResultLine =>
              (verbose /\ po.built /\ log[Len(log)] = [line |-> "result", s |-> po])
        /\ pc = "built" => ~HasResultLine
        /\ (ret.kind = "ok" /\ verbose) => HasResultLine

C10_Witness ==
    /\ Returned
    /\ verbose
    /\ ret.kind = "ok"
    /\ constructed = 1
    /\ child = "exited"
    /\ HasResultLine

====
